---- MODULE Spec2Model ----
(***************************************************************************)
(* A model of scrappy.py: scrape(url) opens the notes database, checks     *)
(* whether a note for the URL exists, asks before overwriting, extracts    *)
(* the article text and upserts it.  One invocation is one process; the    *)
(* invocations run one after the other against the same database file.     *)
(* Text (the line typed at the prompt, the article text) is a sequence:    *)
(* the typed line a sequence of characters, the article text a sequence of *)
(* words.                                                                  *)
(***************************************************************************)
EXTENDS Naturals, Sequences, FiniteSets

\* ------------------------------------------------------------------ bounds
MaxRespLen == 2
MaxContentLen == 1

\* ------------------------------------------------------------------ inputs
SeqsUpTo(S, n) == UNION {[1..k -> S] : k \in 0..n}

Urls == {"http://example.com/a", "http://example.com/b"}

Words == {"Old", "New"}

Contents == SeqsUpTo(Words, MaxContentLen)

RespChars == {"y", "Y", "n", " "}

Responses == SeqsUpTo(RespChars, MaxRespLen) \cup {<<"y", "e", "s">>}

\* a local that holds no value (yet)
None == <<"<none>">>

NoUrl == ""

SavedMsg == "Content saved successfully."

CancelledMsg == "Operation cancelled."

\* --------------------------------------------------------------- str.lower
LowerChar(c) ==
  CASE c = "Y" -> "y"
    [] c = "N" -> "n"
    [] c = "E" -> "e"
    [] c = "S" -> "s"
    [] OTHER -> c

\* a faulty variant: the case is kept
LowerKeepCase(s) == s

Lower(s) == [i \in 1..Len(s) |-> LowerChar(s[i])]

\* --------------------------------------------------------------- str.strip
Whitespace == {" ", "\t", "\n", "\r"}

RECURSIVE LStrip(_)
LStrip(s) ==
  IF s # <<>> /\ Head(s) \in Whitespace THEN LStrip(Tail(s)) ELSE s

RECURSIVE RStrip(_)
RStrip(s) ==
  IF s # <<>> /\ s[Len(s)] \in Whitespace
    THEN RStrip(SubSeq(s, 1, Len(s) - 1))
    ELSE s

\* a faulty variant: the blanks are kept
StripNothing(s) == s

Strip(s) == RStrip(LStrip(s))

\* ------------------------------------------------------------- the queries
\* SELECT COUNT(*) FROM notes WHERE url = ?  (CountNone: a faulty variant
\* that matches no row)
CountNone(rows, u) == 0

Count(rows, u) == Cardinality({r \in rows : r.url = u})

\* INSERT OR REPLACE INTO notes (url, content) VALUES (?, ?), url the
\* primary key: the row in conflict is deleted, the new one inserted.
\* Faulty variants of the statement: INSERT without the key, UPDATE alone, a
\* text cut short, a text added to the old one, a table replaced whole.
PlainInsert(rows, u, c) == rows \cup {[url |-> u, content |-> c]}

UpdateOnly(rows, u, c) ==
  {IF r.url = u THEN [url |-> u, content |-> c] ELSE r : r \in rows}

InsertTruncated(rows, u, c) ==
  {r \in rows : r.url # u}
    \cup {[url |-> u, content |-> SubSeq(c, 1, Len(c) - 1)]}

InsertAppending(rows, u, c) ==
  {r \in rows : r.url # u}
    \cup {[url |-> u, content |-> c]}
    \cup {[url |-> u, content |-> r.content \o c] : r \in {q \in rows : q.url = u}}

ReplaceTable(rows, u, c) == {[url |-> u, content |-> c]}

InsertOrReplace(rows, u, c) ==
  {r \in rows : r.url # u} \cup {[url |-> u, content |-> c]}

\* ------------------------------------------------------------------- state
VARIABLES
  schema,    \* the database file and its notes table exist
  notes,     \* the committed rows of the notes table
  txn,       \* <<rows>>: the table as the open transaction sees it; <<>>: none
  conn,      \* the invocation's connection: "none", "open", "closed"
  pc,        \* where the running invocation is; "idle" when none runs
  url,       \* scrape's argument
  count,     \* the local count
  stdin,     \* the line the user typed at the prompt
  response,  \* the local response
  content,   \* the local content
  out,       \* what the invocation has printed
  raised,    \* the invocation ended by an uncaught exception
  steps,     \* the steps the invocation has taken, in order
  before,    \* the committed rows when the invocation began
  prev       \* <<url, content>> of the invocation just before, if it saved

vars ==
  <<schema, notes, txn, conn, pc, url, count, stdin, response, content, out,
    raised, steps, before, prev>>

Init ==
  /\ schema = FALSE
  /\ notes = {}
  /\ txn = <<>>
  /\ conn = "none"
  /\ pc = "idle"
  /\ url = NoUrl
  /\ count = 0
  /\ stdin = None
  /\ response = None
  /\ content = None
  /\ out = ""
  /\ raised = FALSE
  /\ steps = <<>>
  /\ before = {}
  /\ prev = <<>>

\* ----------------------------------------------------------------- actions
\* scrape(url) is called; setup_database() creates what is missing and
\* opens the connection.
Start ==
  /\ pc = "idle"
  /\ \E u \in Urls : url' = u
  /\ schema' = TRUE
  /\ conn' = "open"
  /\ before' = notes
  /\ steps' = <<"init">>
  /\ pc' = "query"
  /\ UNCHANGED <<notes, txn, count, stdin, response, content, out, raised, prev>>

\* the existence query, and the branch on its result
Query ==
  /\ pc = "query"
  /\ count' = Count(notes, url)
  /\ steps' = Append(steps, "query")
  /\ pc' = IF count' > 0 THEN "prompt" ELSE "extract"
  /\ UNCHANGED <<schema, notes, txn, conn, url, stdin, response, content, out,
                 raised, before, prev>>

\* input(...).lower().strip(), and the comparison with "y"
Prompt ==
  /\ pc = "prompt"
  /\ \E line \in Responses :
       /\ stdin' = line
       /\ response' = Strip(Lower(line))
  /\ steps' = Append(steps, "prompt")
  /\ pc' = IF response' # <<"y">> THEN "cancel_print" ELSE "extract"
  /\ UNCHANGED <<schema, notes, txn, conn, url, count, content, out, raised,
                 before, prev>>

CancelPrint ==
  /\ pc = "cancel_print"
  /\ out' = CancelledMsg
  /\ steps' = Append(steps, "cancel_msg")
  /\ pc' = "cancel_close"
  /\ UNCHANGED <<schema, notes, txn, conn, url, count, stdin, response, content,
                 raised, before, prev>>

CancelClose ==
  /\ pc = "cancel_close"
  /\ conn' = "closed"
  /\ steps' = Append(steps, "close")
  /\ pc' = "done"
  /\ UNCHANGED <<schema, notes, txn, url, count, stdin, response, content, out,
                 raised, before, prev>>

\* extract_article_content(url) returns the article's text
ExtractOk ==
  /\ pc = "extract"
  /\ \E c \in Contents : content' = c
  /\ steps' = Append(steps, "extract")
  /\ pc' = "write"
  /\ UNCHANGED <<schema, notes, txn, conn, url, count, stdin, response, out,
                 raised, before, prev>>

\* a faulty variant of ExtractFail: the failure is swallowed and an empty
\* text goes on to be written
ExtractFailWritesEmpty ==
  /\ pc = "extract"
  /\ content' = <<>>
  /\ steps' = steps \o <<"extract", "extract_failed">>
  /\ pc' = "write"
  /\ UNCHANGED <<schema, notes, txn, conn, url, count, stdin, response, out,
                 raised, before, prev>>

\* extract_article_content(url) raises: nothing in scrape catches it
ExtractFail ==
  /\ pc = "extract"
  /\ raised' = TRUE
  /\ steps' = steps \o <<"extract", "extract_failed">>
  /\ pc' = "ended"
  /\ UNCHANGED <<schema, notes, txn, conn, url, count, stdin, response, content,
                 out, before, prev>>

\* cursor.execute("INSERT OR REPLACE ..."): inside the open transaction
Write ==
  /\ pc = "write"
  /\ txn' = <<InsertOrReplace(notes, url, content)>>
  /\ steps' = Append(steps, "write")
  /\ pc' = "commit"
  /\ UNCHANGED <<schema, notes, conn, url, count, stdin, response, content, out,
                 raised, before, prev>>

Commit ==
  /\ pc = "commit"
  /\ notes' = txn[1]
  /\ txn' = <<>>
  /\ steps' = Append(steps, "commit")
  /\ pc' = "close"
  /\ UNCHANGED <<schema, conn, url, count, stdin, response, content, out, raised,
                 before, prev>>

Close ==
  /\ pc = "close"
  /\ conn' = "closed"
  /\ steps' = Append(steps, "close")
  /\ pc' = "print"
  /\ UNCHANGED <<schema, notes, txn, url, count, stdin, response, content, out,
                 raised, before, prev>>

PrintSaved ==
  /\ pc = "print"
  /\ out' = SavedMsg
  /\ steps' = Append(steps, "saved_msg")
  /\ pc' = "done"
  /\ UNCHANGED <<schema, notes, txn, conn, url, count, stdin, response, content,
                 raised, before, prev>>

\* the process of the invocation is gone: the next invocation starts afresh
Exit ==
  /\ pc \in {"done", "ended"}
  /\ prev' = IF out = SavedMsg THEN <<url, content>> ELSE <<>>
  /\ pc' = "idle"
  /\ conn' = "none"
  /\ url' = NoUrl
  /\ count' = 0
  /\ stdin' = None
  /\ response' = None
  /\ content' = None
  /\ out' = ""
  /\ raised' = FALSE
  /\ steps' = <<>>
  /\ before' = notes
  /\ UNCHANGED <<schema, notes, txn>>

Next ==
  \/ Start
  \/ Query
  \/ Prompt
  \/ CancelPrint
  \/ CancelClose
  \/ ExtractOk
  \/ ExtractFail
  \/ Write
  \/ Commit
  \/ Close
  \/ PrintSaved
  \/ Exit

Spec == Init /\ [][Next]_vars

\* ------------------------------------------------------------- properties
HasNote(rows, u) == \E r \in rows : r.url = u

RowsOf(rows, u) == {r \in rows : r.url = u}

Took(s) == \E i \in 1..Len(steps) : steps[i] = s

Running == pc # "idle"

Ended == pc \in {"done", "ended"}

\* The typed line is a y or a Y with nothing but blanks around it.
SaysYes(line) ==
  \E i \in 1..Len(line) :
    /\ line[i] \in {"y", "Y"}
    /\ \A j \in (1..Len(line)) \ {i} : line[j] \in {" ", "\t", "\n", "\r"}

Typed == stdin # None

OrderFresh ==
  <<"init", "query", "extract", "write", "commit", "close", "saved_msg">>

OrderOverwrite ==
  <<"init", "query", "prompt", "extract", "write", "commit", "close",
    "saved_msg">>

OrderCancel == <<"init", "query", "prompt", "cancel_msg", "close">>

OrderFreshFail == <<"init", "query", "extract", "extract_failed">>

OrderOverwriteFail == <<"init", "query", "prompt", "extract", "extract_failed">>

IsPrefix(a, b) == Len(a) <= Len(b) /\ SubSeq(b, 1, Len(a)) = a

\* C1: an invocation for a URL without a note whose extraction succeeds
\* never prompts, ends with the note (url, extractor's output) in the store
\* and "Content saved successfully." printed, and the existence query for
\* the URL then counts a row.
C1_FreshScrapeSaves ==
  (Ended /\ ~HasNote(before, url) /\ ~Took("extract_failed")) =>
    /\ pc = "done"
    /\ ~Took("prompt")
    /\ ~Typed
    /\ content \in Contents
    /\ [url |-> url, content |-> content] \in notes
    /\ out = SavedMsg
    /\ Count(notes, url) > 0

C1_Witness ==
  /\ pc = "done"
  /\ before = {}
  /\ url = "http://example.com/a"
  /\ content = <<"New">>
  /\ notes = {[url |-> "http://example.com/a", content |-> <<"New">>]}
  /\ out = SavedMsg

\* C2: for a URL that has a note, the stored content is replaced by the new
\* extraction result exactly when the typed line, lower-cased and trimmed,
\* is "y"; after any other line the store is unchanged, nothing is extracted
\* or written, and "Operation cancelled." is printed.
C2_OverwriteOnlyOnYes ==
  (Running /\ HasNote(before, url) /\ Typed) =>
    /\ (Ended /\ SaysYes(stdin) /\ ~Took("extract_failed")) =>
         /\ content \in Contents
         /\ notes = {r \in before : r.url # url}
                      \cup {[url |-> url, content |-> content]}
    /\ ~SaysYes(stdin) =>
         /\ notes = before
         /\ txn = <<>>
         /\ content = None
         /\ ~Took("extract")
         /\ ~Took("write")
         /\ Ended => out = CancelledMsg
    /\ notes # before => SaysYes(stdin)

C2_Witness ==
  /\ pc = "done"
  /\ stdin = <<"Y">>
  /\ [url |-> url, content |-> <<"Old">>] \in before
  /\ [url |-> url, content |-> <<"New">>] \in notes
  /\ ~([url |-> url, content |-> <<"Old">>] \in notes)

\* C3 as stated: with a note present, the lines "", "n", "yes" and "Y "
\* each abort (store closed, cancellation printed, nothing written), and
\* only the one-character line "y" goes on to extraction and write.
C3_OnlyLowercaseY ==
  (Ended /\ HasNote(before, url)) =>
    /\ stdin \in {<<>>, <<"n">>, <<"y", "e", "s">>, <<"Y", " ">>} =>
         /\ conn = "closed"
         /\ out = CancelledMsg
         /\ notes = before
         /\ ~Took("write")
    /\ Took("extract") => stdin = <<"y">>

\* C3 as amended: with a note present, the lines "", "n" and "yes" each
\* abort (store closed, cancellation printed, nothing written); the lines
\* "y", "Y", "Y " and " y" go on to extraction, as does every line that is
\* "y" once lower-cased and trimmed, and no other line does.
C3_YesAfterLowerAndStrip ==
  (Ended /\ HasNote(before, url)) =>
    /\ stdin \in {<<>>, <<"n">>, <<"y", "e", "s">>} =>
         /\ conn = "closed"
         /\ out = CancelledMsg
         /\ notes = before
         /\ ~Took("write")
         /\ ~Took("extract")
    /\ stdin \in {<<"y">>, <<"Y">>, <<"Y", " ">>, <<" ", "y">>} =>
         /\ Took("extract")
         /\ out # CancelledMsg
    /\ Took("extract") <=> SaysYes(stdin)

C3_Witness ==
  /\ pc = "done"
  /\ HasNote(before, url)
  /\ stdin = <<"Y", " ">>
  /\ Took("write")
  /\ out = SavedMsg

\* C4: when the extractor fails, with the URL absent or the overwrite just
\* confirmed, nothing is written: the store is as it was when the
\* invocation began.
C4_FailedExtractionWritesNothing ==
  Took("extract_failed") =>
    /\ notes = before
    /\ txn = <<>>
    /\ ~Took("write")
    /\ ~Took("commit")
    /\ out = ""

C4_Witness ==
  /\ pc = "ended"
  /\ Took("extract_failed")
  /\ HasNote(before, url)
  /\ SaysYes(stdin)
  /\ notes = before

\* C5: however an invocation ends (saved, declined, extraction failure), the
\* connection it opened has been closed.
C5_ConnectionClosedAtEnd == Ended => conn = "closed"

\* C6: the store holds at most one note per URL; a URL that has a note keeps
\* having one; the rows of a URL that has a note change only in an
\* invocation for that URL in which the user confirmed, and then to the one
\* row of the new content.
C6_OneNotePerUrlNeverDeleted ==
  /\ [](\A r1, r2 \in notes : r1.url = r2.url => r1 = r2)
  /\ [][\A u \in Urls :
          /\ HasNote(notes, u) => HasNote(notes', u)
          /\ (HasNote(notes, u) /\ RowsOf(notes', u) # RowsOf(notes, u)) =>
               /\ u = url
               /\ SaysYes(stdin)
               /\ RowsOf(notes', u) = {[url |-> u, content |-> content]}]_vars

C6_Witness ==
  /\ pc = "close"
  /\ HasNote(before, url)
  /\ notes # before
  /\ \E u \in Urls \ {url} : HasNote(notes, u)

C8_SecondScrapeSameStore ==
  (pc = "done" /\ out = SavedMsg /\ prev = <<url, content>>) => notes = before

C8_Witness ==
  /\ pc = "done"
  /\ out = SavedMsg
  /\ prev = <<url, content>>
  /\ SaysYes(stdin)
  /\ content # <<>>
  /\ \E u \in Urls \ {url} : HasNote(notes, u)

\* C9: the steps of an invocation come in the order init, query, (prompt),
\* extract, write, close, success message; the user is prompted exactly when
\* the URL has a note, the extractor is called exactly when the URL has no
\* note or the user confirmed, and a declined overwrite extracts and writes
\* nothing.
C9_StepOrder ==
  Running =>
    /\ \E o \in {OrderFresh, OrderOverwrite, OrderCancel, OrderFreshFail,
                 OrderOverwriteFail} : IsPrefix(steps, o)
    /\ (pc = "done" /\ out = SavedMsg) =>
         steps = IF HasNote(before, url) THEN OrderOverwrite ELSE OrderFresh
    /\ pc \notin {"query", "prompt"} => (Took("prompt") <=> HasNote(before, url))
    /\ Took("prompt") <=> Typed
    /\ Ended => (Took("extract") <=> (~HasNote(before, url) \/ SaysYes(stdin)))
    /\ (Ended /\ Typed /\ ~SaysYes(stdin)) => steps = OrderCancel

C9_Witness ==
  /\ pc = "done"
  /\ steps = OrderOverwrite
  /\ HasNote(before, url)

\* C10: an invocation for a URL leaves the notes of every other URL as they
\* were, whatever its outcome.
C10_OtherUrlsUntouched ==
  Running =>
    \A u \in Urls \ {url} :
      /\ RowsOf(notes, u) = RowsOf(before, u)
      /\ txn # <<>> => RowsOf(txn[1], u) = RowsOf(before, u)

C10_Witness ==
  /\ pc = "done"
  /\ out = SavedMsg
  /\ HasNote(before, url)
  /\ notes # before
  /\ \E u \in Urls \ {url} : HasNote(notes, u)

====
